---- MODULE Spec2Model ----
(***************************************************************************)
(* Model of the car ticket booking API (src/index.js): the express         *)
(* handlers for register, login, the car catalogue and the per-user        *)
(* bookings, the authenticateToken middleware, and the three relations of  *)
(* the PostgreSQL schema with their SERIAL, UNIQUE and REFERENCES          *)
(* constraints.                                                            *)
(*                                                                         *)
(* The store is taken to be reachable: pool.query fails only for the       *)
(* reasons the schema and the statement's parameters give (a constraint    *)
(* violation, a value that is no integer or no date).                      *)
(***************************************************************************)
EXTENDS Integers, Sequences, FiniteSets, TLC

VARIABLES users, cars, bookings, userSeq, carSeq, bookingSeq,
          now, tokens, inflight, last

vars == <<users, cars, bookings, userSeq, carSeq, bookingSeq,
          now, tokens, inflight, last>>

(***************************************************************************)
(* Bounds of the model.                                                    *)
(***************************************************************************)
\* INSERTs INTO users attempted (each takes a value of users_id_seq).
MaxUserSeq == 2
\* INSERTs INTO cars attempted.
MaxCarSeq == 1
\* INSERTs INTO bookings attempted.
MaxBookingSeq == 1
\* The clock runs from 0 to MaxTime ticks.
MaxTime == 3
\* Tokens issued by /login.
MaxTokens == 1
\* POST /bookings requests parked between their SELECT and their INSERT.
MaxInflight == 1

(***************************************************************************)
(* JSON values of a request body or path, and JavaScript's truthiness.     *)
(***************************************************************************)
Undefined == [kind |-> "undefined", s |-> "", n |-> 0]
Str(s) == [kind |-> "string", s |-> s, n |-> 0]
Num(n) == [kind |-> "number", s |-> "", n |-> n]

\* !v
Not(v) ==
    \/ v.kind = "undefined"
    \/ v.kind = "string" /\ v.s = ""
    \/ v.kind = "number" /\ v.n = 0

\* The decimal numerals the model's path and body strings use.
Numerals == <<"1", "2", "3", "4", "5", "6", "7", "8", "9">>

\* A parameter bound to an INTEGER column or compared with one: the set of
\* integers it denotes, empty when PostgreSQL rejects it
\* (invalid input syntax for type integer).
PgInteger(v) ==
    CASE v.kind = "number" -> {v.n}
      [] v.kind = "string" -> {i \in DOMAIN Numerals : Numerals[i] = v.s}
      [] OTHER -> {}

(***************************************************************************)
(* bcrypt: the digest embeds the salt and the cost.                        *)
(***************************************************************************)
Salts == {"s1", "s2"}
BcryptWith(password, salt, cost) ==
    [cost |-> cost, salt |-> salt, of |-> password]
\* bcrypt.hash(password, 10), with the salt the call drew
BcryptHash(password, salt) == BcryptWith(password, salt, 10)
\* bcrypt.compare(password, digest)
BcryptCompare(password, digest) ==
    BcryptWith(password, digest.salt, digest.cost) = digest

(***************************************************************************)
(* Tokens and the Authorization header.                                    *)
(***************************************************************************)
\* jwt.sign(..., { expiresIn: '1h' }), in ticks of half an hour
ExpiresIn == 2

NoClaims == [id |-> 0, email |-> "", iat |-> 0, exp |-> 0]

\* One space-separated part of a header: a word, or a JWT with its payload
\* and the key that signed it.
Word(s) == [kind |-> "text", text |-> s, claims |-> NoClaims, key |-> "none"]
Jwt(claims, key) == [kind |-> "jwt", text |-> "", claims |-> claims, key |-> key]
NoPart == [kind |-> "undefined", text |-> "", claims |-> NoClaims, key |-> "none"]

\* jwt.sign({ id, email }, JWT_SECRET, { expiresIn: '1h' }) at time t
JwtSign(user, t) ==
    Jwt([id |-> user.id, email |-> user.email, iat |-> t, exp |-> t + ExpiresIn],
        "JWT_SECRET")

\* jwt.verify with ignoreExpiration.
JwtVerifiesIgnoringExpiry(token, t) ==
    /\ token.kind = "jwt"
    /\ token.key = "JWT_SECRET"

\* jwt.verify(token, JWT_SECRET) at time t succeeds
JwtVerifies(token, t) ==
    /\ token.kind = "jwt"
    /\ token.key = "JWT_SECRET"
    /\ t < token.claims.exp

\* A request's headers: no Authorization header, or its parts after
\* split(' ').
NoHeader == [present |-> FALSE, parts |-> <<>>]
Header(parts) == [present |-> TRUE, parts |-> parts]

\* authHeader && authHeader.split(' ')[1]
BearerToken(h) ==
    IF h.present /\ Len(h.parts) >= 2 THEN h.parts[2] ELSE NoPart

TokenMissing(token) ==
    \/ token.kind = "undefined"
    \/ token.kind = "text" /\ token.text = ""

\* authenticateToken answering 401 to an invalid token as well.
GateStatusAlways401(h, t) ==
    IF TokenMissing(BearerToken(h)) THEN 401
    ELSE IF ~JwtVerifies(BearerToken(h), t) THEN 401
    ELSE 0

\* The status authenticateToken answers with, 0 when it calls next().
GateStatus(h, t) ==
    IF TokenMissing(BearerToken(h)) THEN 401
    ELSE IF ~JwtVerifies(BearerToken(h), t) THEN 403
    ELSE 0

\* req.user as authenticateToken leaves it.
GateUser(h, t) ==
    IF GateStatus(h, t) = 0 THEN BearerToken(h).claims ELSE NoClaims

GateError(status) ==
    IF status = 401 THEN "Token missing" ELSE "Invalid or expired token"

(***************************************************************************)
(* The response of the last request answered, with what it was asked and   *)
(* the time at which it arrived.                                           *)
(***************************************************************************)
Response(op, at, status, error, header, user, arg, date, rows) ==
    [op |-> op, at |-> at, status |-> status, error |-> error,
     header |-> header, user |-> user, arg |-> arg, date |-> date,
     rows |-> rows]

NoResponse ==
    Response("none", 0, 0, "", NoHeader, NoClaims, Undefined, Undefined, <<>>)

(***************************************************************************)
(* The relations and the statements the handlers run on them.              *)
(***************************************************************************)
RECURSIVE Ascending(_)
\* The numbers of a set in ascending order.
Ascending(S) ==
    IF S = {} THEN <<>>
    ELSE LET m == CHOOSE x \in S : \A y \in S : x <= y
         IN  <<m>> \o Ascending(S \ {m})

RECURSIVE Descending(_)
\* The numbers of a set in descending order.
Descending(S) ==
    IF S = {} THEN <<>>
    ELSE LET m == CHOOSE x \in S : \A y \in S : x >= y
         IN  <<m>> \o Descending(S \ {m})

\* users.email without its UNIQUE constraint.
UsersAcceptAny(rows, row) == TRUE

\* users.email is UNIQUE: the row is accepted.
UsersAccept(rows, row) == \A u \in rows : u.email # row.email

\* The dates the model's travel_date strings spell.
DateTexts == {"2025-01-01", "2025-02-30"}
DateFields(s) ==
    CASE s = "2025-01-01" -> <<2025, 1, 1>>
      [] s = "2025-02-30" -> <<2025, 2, 30>>

IsLeap(y) == (y % 4 = 0 /\ y % 100 # 0) \/ y % 400 = 0
DaysIn(y, m) ==
    CASE m \in {4, 6, 9, 11} -> 30
      [] m = 2 -> IF IsLeap(y) THEN 29 ELSE 28
      [] OTHER -> 31
\* A parameter bound to a DATE column is accepted
\* (else: date/time field value out of range).
PgDate(v) ==
    /\ v.kind = "string"
    /\ v.s \in DateTexts
    /\ DateFields(v.s)[2] \in 1..12
    /\ DateFields(v.s)[3] \in 1..DaysIn(DateFields(v.s)[1], DateFields(v.s)[2])

\* A parameter bound to a NUMERIC column: the set of numbers it denotes,
\* empty when PostgreSQL rejects it.
PgNumeric(v) == PgInteger(v)

\* bookings.car_id without REFERENCES cars(id).
BookingsAcceptNoCarKey(userRows, carRows, row) ==
    \E u \in userRows : u.id = row.user_id

\* bookings.user_id REFERENCES users(id), bookings.car_id REFERENCES cars(id):
\* the row is accepted.
BookingsAccept(userRows, carRows, row) ==
    /\ \E u \in userRows : u.id = row.user_id
    /\ \E c \in carRows : c.id = row.car_id

\* A car no booking references may be deleted from cars
\* (ON DELETE NO ACTION is the default of REFERENCES).
CarsRelease(bookingRows, car) == \A b \in bookingRows : b.car_id # car.id

\* SELECT * FROM cars ORDER BY id
SelectCars(carRows) ==
    LET ids == Ascending({c.id : c \in carRows})
    IN  [i \in DOMAIN ids |-> CHOOSE c \in carRows : c.id = ids[i]]

\* The car query without its WHERE clause.
SelectCarAny(carRows, id) == carRows

\* SELECT * FROM cars WHERE id = $1
SelectCarById(carRows, id) == {c \in carRows : c.id \in PgInteger(id)}

\* One row of bookings b JOIN cars c ON b.car_id = c.id
BookingCarRow(b, c) ==
    [id |-> b.id, travel_date |-> b.travel_date, car_name |-> c.name,
     car_details |-> c.details, car_price |-> c.price]

\* The list query without WHERE b.user_id = $1.
SelectBookingsOfAll(bookingRows, carRows, uid) ==
    LET joined == {<<b, c>> \in bookingRows \X carRows : b.car_id = c.id}
        ids == Descending({bc[1].id : bc \in joined})
    IN  [i \in DOMAIN ids |->
            LET bc == CHOOSE x \in joined : x[1].id = ids[i]
            IN  BookingCarRow(bc[1], bc[2])]

\* SELECT ... FROM bookings b JOIN cars c ON b.car_id = c.id
\* WHERE b.user_id = $1 ORDER BY b.id DESC
SelectBookingsOf(bookingRows, carRows, uid) ==
    LET joined == {<<b, c>> \in bookingRows \X carRows :
                       b.car_id = c.id /\ b.user_id = uid}
        ids == Descending({bc[1].id : bc \in joined})
    IN  [i \in DOMAIN ids |->
            LET bc == CHOOSE x \in joined : x[1].id = ids[i]
            IN  BookingCarRow(bc[1], bc[2])]

\* One row of bookings b JOIN cars c JOIN users u
BookingCarUserRow(b, c, u) ==
    [id |-> b.id, travel_date |-> b.travel_date, car_name |-> c.name,
     car_details |-> c.details, car_price |-> c.price,
     user_name |-> u.name, user_email |-> u.email]

\* The single-booking query without AND b.user_id = $2.
SelectBookingByIdAnyOwner(bookingRows, carRows, userRows, id, uid) ==
    {BookingCarUserRow(x[1], x[2], x[3]) :
        x \in {y \in bookingRows \X carRows \X userRows :
                  /\ y[1].car_id = y[2].id
                  /\ y[1].user_id = y[3].id
                  /\ y[1].id \in PgInteger(id)}}

\* SELECT ... FROM bookings b JOIN cars c ON b.car_id = c.id
\* JOIN users u ON b.user_id = u.id WHERE b.id = $1 AND b.user_id = $2
SelectBookingById(bookingRows, carRows, userRows, id, uid) ==
    {BookingCarUserRow(x[1], x[2], x[3]) :
        x \in {y \in bookingRows \X carRows \X userRows :
                  /\ y[1].car_id = y[2].id
                  /\ y[1].user_id = y[3].id
                  /\ y[1].id \in PgInteger(id)
                  /\ y[1].user_id = uid}}

\* The INSERT's parameters with the owner read from the body.
BookingParamsFromBody(user, body) ==
    [user_id |-> body.user_id.n, car_id |-> body.car_id,
     travel_date |-> body.travel_date]

\* The parameters of INSERT INTO bookings(user_id, car_id, travel_date):
\* [req.user.id, car_id, travel_date]
BookingParams(user, body) ==
    [user_id |-> user.id, car_id |-> body.car_id, travel_date |-> body.travel_date]

(***************************************************************************)
(* Inputs.                                                                 *)
(***************************************************************************)
Names == {Undefined, Str("Ana")}
Emails == {Undefined, Str("ana@x.com"), Str("bob@x.com")}
Passwords == {Undefined, Str("secret"), Str("other")}
CarNames == {Undefined, Str("Civic"), Str("Golf")}
CarDetails == {Undefined, Str("sedan")}
CarPrices == {Undefined, Num(0), Num(20000), Str("cheap")}
TravelDates == {Undefined, Str("2025-01-01"), Str("2025-02-30")}
Malformed == Str("abc")
\* :id of /cars/:id and of /bookings/:id
CarPathIds == {Str(Numerals[i]) : i \in 1..(MaxCarSeq + 1)} \cup {Malformed}
BookingPathIds == {Str(Numerals[i]) : i \in 1..(MaxBookingSeq + 1)} \cup {Malformed}
\* car_id and user_id of the body of POST /bookings
BodyCarIds == {Undefined, Num(0), Malformed} \cup {Num(i) : i \in 1..(MaxCarSeq + 1)}
BodyUserIds == {Num(i) : i \in 1..MaxUserSeq}

\* A token signed with a key that is not the server's, with a late expiry.
ForgedToken ==
    Jwt([id |-> 1, email |-> "ana@x.com", iat |-> 0,
         exp |-> MaxTime + ExpiresIn + 1], "attacker")

\* The Authorization headers a client may send: none, the scheme alone, the
\* scheme and an empty token, a token that is no JWT, a forged one, and the
\* tokens /login issued.
Headers ==
    {NoHeader, Header(<<Word("Bearer")>>), Header(<<Word("Bearer"), Word("")>>),
     Header(<<Word("Bearer"), Word("garbage")>>),
     Header(<<Word("Bearer"), ForgedToken>>)}
    \cup {Header(<<Word("Bearer"), token>>) : token \in tokens}

Init ==
    /\ users = {}
    /\ cars = {}
    /\ bookings = {}
    /\ userSeq = 0
    /\ carSeq = 0
    /\ bookingSeq = 0
    /\ now = 0
    /\ tokens = {}
    /\ inflight = {}
    /\ last = NoResponse

\* No answer is being sent: the event loop is free to run a handler.
Idle == last.op = "none"

Answer(op, status, error) ==
    Response(op, now, status, error, NoHeader, NoClaims, Undefined, Undefined, <<>>)

\* The answer of authenticateToken when it does not call next().
Rejected(op, h) ==
    [Answer(op, GateStatus(h, now), GateError(GateStatus(h, now)))
        EXCEPT !.header = h]

(***************************************************************************)
(* POST /register                                                          *)
(***************************************************************************)
\* The handler, for bodies whose password is drawn from `passwords` and
\* whose bcrypt salt from `salts`. It reads and writes the store in one
\* statement, its INSERT, which the store runs atomically: requests that
\* overlap take effect in the order of their INSERTs, so one step of the
\* model is the whole handler.
RegisterWith(passwords, salts) ==
    /\ Idle
    /\ \E name \in Names, email \in Emails, password \in passwords :
        IF Not(name) \/ Not(email) \/ Not(password)
        THEN /\ last' = Answer("register", 400,
                            "Name, email and password are required")
             /\ UNCHANGED <<users, userSeq>>
        ELSE /\ userSeq < MaxUserSeq
             /\ userSeq' = userSeq + 1
             /\ \E salt \in salts :
                LET row == [id |-> userSeq + 1, name |-> name.s, email |-> email.s,
                            password |-> BcryptHash(password.s, salt)]
                IN  IF UsersAccept(users, row)
                    THEN /\ users' = users \cup {row}
                         /\ last' = [Answer("register", 201, "") EXCEPT !.arg = email]
                    ELSE /\ users' = users
                         /\ last' = [Answer("register", 500,
                                        "Server error during registration")
                                        EXCEPT !.arg = email]
    /\ UNCHANGED <<cars, bookings, carSeq, bookingSeq, now, tokens, inflight>>

Register == RegisterWith(Passwords, Salts)

\* Registrations that all choose the same password.
Signup == RegisterWith({Undefined, Str("secret")}, {"s1"})

(***************************************************************************)
(* POST /login                                                             *)
(***************************************************************************)
\* The tokens the clients hold once /login has issued one more: a client at
\* its limit drops one it held.
Holding(held, token) ==
    IF Cardinality(held \cup {token}) <= MaxTokens
    THEN {held \cup {token}}
    ELSE {(held \ {old}) \cup {token} : old \in held}

Login ==
    /\ Idle
    /\ \E email \in Emails, password \in Passwords :
        IF Not(email) \/ Not(password)
        THEN /\ last' = Answer("login", 400, "Email and password are required")
             /\ tokens' = tokens
        ELSE LET found == {u \in users : u.email = email.s}
             IN  IF found = {}
                 THEN /\ last' = Answer("login", 403, "Invalid credentials")
                      /\ tokens' = tokens
                 ELSE LET user == CHOOSE u \in found : TRUE
                      IN  IF ~BcryptCompare(password.s, user.password)
                          THEN /\ last' = Answer("login", 403, "Invalid credentials")
                               /\ tokens' = tokens
                          ELSE /\ tokens' \in Holding(tokens, JwtSign(user, now))
                               /\ last' = [Answer("login", 200, "")
                                              EXCEPT !.user = JwtSign(user, now).claims]
    /\ UNCHANGED <<users, cars, bookings, userSeq, carSeq, bookingSeq, now, inflight>>

(***************************************************************************)
(* GET /cars, GET /cars/:id, POST /cars                                    *)
(***************************************************************************)
GetCars ==
    /\ Idle
    /\ last' = [Answer("getCars", 200, "") EXCEPT !.rows = SelectCars(cars)]
    /\ UNCHANGED <<users, cars, bookings, userSeq, carSeq, bookingSeq, now,
                   tokens, inflight>>

GetCar ==
    /\ Idle
    /\ \E id \in CarPathIds :
        last' =
            IF PgInteger(id) = {}
            THEN [Answer("getCar", 500, "Error fetching car") EXCEPT !.arg = id]
            ELSE IF SelectCarById(cars, id) = {}
            THEN [Answer("getCar", 404, "Car not found") EXCEPT !.arg = id]
            ELSE [Answer("getCar", 200, "") EXCEPT
                     !.arg = id,
                     !.rows = <<CHOOSE c \in SelectCarById(cars, id) : TRUE>>]
    /\ UNCHANGED <<users, cars, bookings, userSeq, carSeq, bookingSeq, now,
                   tokens, inflight>>

\* POST /cars whose 400 answer lacks its return: the INSERT still runs.
AddCarNoReturn ==
    /\ Idle
    /\ carSeq < MaxCarSeq
    /\ \E name \in CarNames, details \in CarDetails, price \in CarPrices :
        /\ carSeq' = carSeq + 1
        /\ cars' = cars \cup {[id |-> carSeq + 1, name |-> name.s,
                               details |-> details.s, price |-> price.n]}
        /\ last' = IF Not(name) \/ Not(details) \/ Not(price)
                   THEN Answer("addCar", 400, "Name, details and price are required")
                   ELSE Answer("addCar", 201, "")
    /\ UNCHANGED <<users, bookings, userSeq, bookingSeq, now, tokens, inflight>>

AddCar ==
    /\ Idle
    /\ \E name \in CarNames, details \in CarDetails, price \in CarPrices :
        IF Not(name) \/ Not(details) \/ Not(price)
        THEN /\ last' = Answer("addCar", 400, "Name, details and price are required")
             /\ UNCHANGED <<cars, carSeq>>
        ELSE IF PgNumeric(price) = {}
        THEN /\ last' = Answer("addCar", 500, "Error adding car")
             /\ UNCHANGED <<cars, carSeq>>
        ELSE /\ carSeq < MaxCarSeq
             /\ carSeq' = carSeq + 1
             /\ cars' = cars \cup {[id |-> carSeq + 1, name |-> name.s,
                                    details |-> details.s,
                                    price |-> CHOOSE n \in PgNumeric(price) : TRUE]}
             /\ last' = Answer("addCar", 201, "")
    /\ UNCHANGED <<users, bookings, userSeq, bookingSeq, now, tokens, inflight>>

(***************************************************************************)
(* GET /bookings, GET /bookings/:id                                        *)
(***************************************************************************)
GetBookings ==
    /\ Idle
    /\ \E h \in Headers :
        last' =
            IF GateStatus(h, now) # 0 THEN Rejected("getBookings", h)
            ELSE [Answer("getBookings", 200, "") EXCEPT
                     !.header = h,
                     !.user = GateUser(h, now),
                     !.rows = SelectBookingsOf(bookings, cars, GateUser(h, now).id)]
    /\ UNCHANGED <<users, cars, bookings, userSeq, carSeq, bookingSeq, now,
                   tokens, inflight>>

\* The answer of the handler to a request the gate let through.
GetBookingAnswer(h, id) ==
    LET user == GateUser(h, now)
        found == SelectBookingById(bookings, cars, users, id, user.id)
        asked == [Answer("getBooking", 0, "") EXCEPT
                     !.header = h, !.user = user, !.arg = id]
    IN  IF PgInteger(id) = {}
        THEN [asked EXCEPT !.status = 500, !.error = "Error fetching booking"]
        ELSE IF found = {}
        THEN [asked EXCEPT !.status = 404, !.error = "Booking not found"]
        ELSE [asked EXCEPT !.status = 200, !.rows = <<CHOOSE r \in found : TRUE>>]

GetBooking ==
    /\ Idle
    /\ \E h \in Headers :
        IF GateStatus(h, now) # 0 THEN last' = Rejected("getBooking", h)
        ELSE \E id \in BookingPathIds : last' = GetBookingAnswer(h, id)
    /\ UNCHANGED <<users, cars, bookings, userSeq, carSeq, bookingSeq, now,
                   tokens, inflight>>

(***************************************************************************)
(* POST /bookings: authenticateToken, the check of the body and the SELECT *)
(* of the car. A request whose car exists waits for its INSERT.            *)
(***************************************************************************)
BookCheck ==
    /\ Idle
    /\ \E h \in Headers :
        IF GateStatus(h, now) # 0
        THEN /\ last' = Rejected("createBooking", h)
             /\ inflight' = inflight
        ELSE \E car_id \in BodyCarIds, travel_date \in TravelDates,
                user_id \in BodyUserIds :
            LET body == [car_id |-> car_id, travel_date |-> travel_date,
                         user_id |-> user_id]
                user == GateUser(h, now)
                asked == [Answer("createBooking", 0, "") EXCEPT
                             !.header = h, !.user = user, !.arg = car_id,
                             !.date = travel_date]
                waiting == [user |-> user, header |-> h, at |-> now,
                            params |-> BookingParams(user, body)]
            IN  IF Not(car_id) \/ Not(travel_date)
                THEN /\ last' = [asked EXCEPT
                                    !.status = 400,
                                    !.error = "car_id and travel_date are required"]
                     /\ inflight' = inflight
                ELSE IF PgInteger(car_id) = {}
                THEN /\ last' = [asked EXCEPT !.status = 500,
                                              !.error = "Server error during booking"]
                     /\ inflight' = inflight
                ELSE IF SelectCarById(cars, car_id) = {}
                THEN /\ last' = [asked EXCEPT !.status = 404,
                                              !.error = "Car not found"]
                     /\ inflight' = inflight
                ELSE /\ Cardinality(inflight \cup {waiting}) <= MaxInflight
                     /\ inflight' = inflight \cup {waiting}
                     /\ last' = NoResponse
    /\ UNCHANGED <<users, cars, bookings, userSeq, carSeq, bookingSeq, now, tokens>>

(***************************************************************************)
(* POST /bookings: the INSERT of a waiting request, and its answer.        *)
(***************************************************************************)
BookInsert ==
    /\ Idle
    /\ \E r \in inflight :
        LET asked == [Answer("createBooking", 0, "") EXCEPT
                         !.at = r.at, !.header = r.header, !.user = r.user,
                         !.arg = r.params.car_id, !.date = r.params.travel_date]
            row == [id |-> bookingSeq + 1,
                    user_id |-> r.params.user_id,
                    car_id |-> CHOOSE i \in PgInteger(r.params.car_id) : TRUE,
                    travel_date |-> DateFields(r.params.travel_date.s)]
        IN  /\ inflight' = inflight \ {r}
            /\ IF ~PgDate(r.params.travel_date)
               THEN /\ last' = [asked EXCEPT !.status = 500,
                                    !.error = "Server error during booking"]
                    /\ UNCHANGED <<bookings, bookingSeq>>
               ELSE /\ bookingSeq < MaxBookingSeq
                    /\ bookingSeq' = bookingSeq + 1
                    /\ IF BookingsAccept(users, cars, row)
                       THEN /\ bookings' = bookings \cup {row}
                            /\ last' = [asked EXCEPT !.status = 201]
                       ELSE /\ bookings' = bookings
                            /\ last' = [asked EXCEPT !.status = 500,
                                            !.error = "Server error during booking"]
    /\ UNCHANGED <<users, cars, userSeq, carSeq, now, tokens>>

(***************************************************************************)
(* The environment: time passes; a row of cars is deleted in the store.    *)
(***************************************************************************)
Tick ==
    /\ Idle
    /\ now < MaxTime
    /\ now' = now + 1
    /\ last' = NoResponse
    /\ UNCHANGED <<users, cars, bookings, userSeq, carSeq, bookingSeq, tokens, inflight>>

DeleteCar ==
    /\ Idle
    /\ \E c \in cars :
        /\ CarsRelease(bookings, c)
        /\ cars' = cars \ {c}
    /\ last' = NoResponse
    /\ UNCHANGED <<users, bookings, userSeq, carSeq, bookingSeq, now, tokens, inflight>>

\* res.json(...) ends the request.
Deliver ==
    /\ ~Idle
    /\ last' = NoResponse
    /\ UNCHANGED <<users, cars, bookings, userSeq, carSeq, bookingSeq, now,
                   tokens, inflight>>

Next ==
    \/ Register
    \/ Login
    \/ GetCars
    \/ GetCar
    \/ AddCar
    \/ GetBookings
    \/ GetBooking
    \/ BookCheck
    \/ BookInsert
    \/ Tick
    \/ DeleteCar
    \/ Deliver

Spec == Init /\ [][Next]_vars

(***************************************************************************)
(* Scenarios: the same handlers, under the requests one group of clients   *)
(* sends.                                                                  *)
(***************************************************************************)
\* Accounts only: registrations with any password and salt, and logins.
NextAccounts ==
    \/ Register
    \/ Login
    \/ Deliver

SpecAccounts == Init /\ [][NextAccounts]_vars

\* Sessions over time: accounts, the clock, and the three protected routes
\* (the catalogue stays empty).
NextSession ==
    \/ Signup
    \/ Login
    \/ GetBookings
    \/ GetBooking
    \/ BookCheck
    \/ Tick
    \/ Deliver

SpecSession == Init /\ [][NextSession]_vars

\* Every route of the service, within the lifetime of the tokens.
NextBookings ==
    \/ Signup
    \/ Login
    \/ GetCars
    \/ GetCar
    \/ AddCar
    \/ GetBookings
    \/ GetBooking
    \/ BookCheck
    \/ BookInsert
    \/ Deliver

SpecBookings == Init /\ [][NextBookings]_vars

\* The same, with rows of cars deleted in the store behind the service.
NextRace ==
    \/ NextBookings
    \/ DeleteCar

SpecRace == Init /\ [][NextRace]_vars

(***************************************************************************)
(* What the claims speak of.                                               *)
(***************************************************************************)
Protected == {"getBookings", "getBooking", "createBooking"}
Reads == {"getCars", "getCar", "getBookings", "getBooking"}

\* The token of the answered request's header and whether /login issued it.
Presented == BearerToken(last.header)
Issued(token) == token \in tokens

\* The answered request passed authenticateToken.
Authenticated == last.op \in Protected /\ last.status \notin {401, 403}

\* What the client sees of an answer.
Outcome(r) == <<r.status, r.error, r.rows>>

\* The ids the parameter denotes, among those of `rows`.
Matching(rows, v) == {x \in rows : x.id \in PgInteger(v)}

(***************************************************************************)
(* C1. GET /bookings/:id for a booking that another user owns answers 404  *)
(* "Booking not found" with no row, exactly as it answers the same caller  *)
(* for an id no booking has; never 200 or 403.                             *)
(***************************************************************************)
AbsentBookingIds == {id \in BookingPathIds :
                        PgInteger(id) # {} /\ Matching(bookings, id) = {}}

C1_OthersBookingLooksAbsent ==
    (/\ last.op = "getBooking"
     /\ Authenticated
     /\ \E b \in Matching(bookings, last.arg) : b.user_id # last.user.id)
    => /\ Outcome(last) = <<404, "Booking not found", <<>> >>
       /\ \A n \in AbsentBookingIds :
              Outcome(last) = Outcome(GetBookingAnswer(last.header, n))

C1_Witness ==
    /\ last.op = "getBooking"
    /\ Authenticated
    /\ last.status = 404
    /\ \E b \in Matching(bookings, last.arg) : b.user_id # last.user.id
    /\ AbsentBookingIds # {}

UniqueEmails(rows) == \A u, v \in rows : u.email = v.email => u = v

C3_EmailsUnique ==
    [][/\ UniqueEmails(users')
       /\ users \subseteq users'
       /\ (last'.op = "register" /\ last'.status # 400) =>
              IF \E u \in users : u.email = last'.arg.s
              THEN last'.status = 500 /\ users' = users
              ELSE /\ last'.status = 201
                   /\ Cardinality(users') = Cardinality(users) + 1
                   /\ \E u \in users' \ users : u.email = last'.arg.s]_vars

C3_Witness ==
    /\ last.op = "register"
    /\ last.status = 500
    /\ \E u \in users : u.email = last.arg.s
    /\ userSeq > Cardinality(users)

(***************************************************************************)
(* C4. A protected request is answered 401 exactly when it has no          *)
(* Authorization header or no token after the scheme word, and 403 exactly *)
(* when its token is no JWT, is not signed with the service's secret or    *)
(* had expired when the request arrived; otherwise the handler ran, with   *)
(* req.user the claims of that token, which bears the service's signature  *)
(* and had not expired.                                                    *)
(***************************************************************************)
Signed(token) == token.kind = "jwt" /\ token.key = "JWT_SECRET"

NoTokenSent ==
    \/ ~last.header.present
    \/ Len(last.header.parts) < 2
    \/ last.header.parts[2] = Word("")

C4_GateBeforeHandler ==
    last.op \in Protected =>
        /\ last.status = 401 <=> NoTokenSent
        /\ last.status = 403 <=>
              /\ ~NoTokenSent
              /\ ~Signed(Presented) \/ last.at >= Presented.claims.exp
        /\ last.status \in {401, 403} =>
              /\ last.user = NoClaims
              /\ last.rows = <<>>
              /\ last.error = IF NoTokenSent THEN "Token missing"
                              ELSE "Invalid or expired token"
        /\ last.status \notin {401, 403} =>
              /\ Signed(Presented)
              /\ last.at < Presented.claims.exp
              /\ last.user = Presented.claims

C4_Witness ==
    /\ last.op \in Protected
    /\ last.status = 403
    /\ Signed(Presented)
    /\ last.at >= Presented.claims.exp

(***************************************************************************)
(* C5. A token /login issued at time t carries the id and email of a       *)
(* stored user and expires at t + 1 hour; a protected request presenting   *)
(* it before that instant passes the gate with exactly those claims, and   *)
(* one presenting it after that instant is answered 403 "Invalid or        *)
(* expired token".                                                         *)
(***************************************************************************)
C5_TokenLifetime ==
    /\ \A token \in tokens :
          /\ token.claims.exp = token.claims.iat + ExpiresIn
          /\ \E u \in users : u.id = token.claims.id /\ u.email = token.claims.email
          /\ now < token.claims.iat + ExpiresIn =>
                /\ GateStatus(Header(<<Word("Bearer"), token>>), now) = 0
                /\ GateUser(Header(<<Word("Bearer"), token>>), now) = token.claims
          /\ now > token.claims.iat + ExpiresIn =>
                GateStatus(Header(<<Word("Bearer"), token>>), now) = 403
    /\ (last.op \in Protected /\ Issued(Presented)) =>
          /\ last.at < Presented.claims.iat + ExpiresIn =>
                last.status \notin {401, 403} /\ last.user = Presented.claims
          /\ last.at > Presented.claims.iat + ExpiresIn =>
                Outcome(last) = <<403, "Invalid or expired token", <<>> >>

C5_Witness ==
    /\ last.op \in Protected
    /\ Issued(Presented)
    /\ last.at > Presented.claims.iat + ExpiresIn
    /\ last.status = 403
    /\ Cardinality(users) = 2

(***************************************************************************)
(* C6. Every booking row a step adds has as user_id the id claim of the    *)
(* token that authenticated the request which the step answers 201.        *)
(***************************************************************************)
C6_OwnerIsCaller ==
    [][\A b \in bookings' \ bookings :
          /\ last'.op = "createBooking"
          /\ last'.status = 201
          /\ BearerToken(last'.header).key = "JWT_SECRET"
          /\ b.user_id = BearerToken(last'.header).claims.id
          /\ b.user_id = last'.user.id]_vars

C6_Witness ==
    /\ last.op = "createBooking"
    /\ last.status = 201
    /\ \E b \in bookings : b.user_id = 2 /\ b.user_id = last.user.id

(***************************************************************************)
(* C7. Every booking's car_id is the id of a stored car and its user_id    *)
(* the id of a stored user, also when rows of cars are deleted behind the  *)
(* service: an INSERT whose car is gone since the handler's SELECT answers *)
(* 500 and adds no booking.                                                *)
(***************************************************************************)
Referential(bookingRows, carRows, userRows) ==
    \A b \in bookingRows :
        /\ \E c \in carRows : c.id = b.car_id
        /\ \E u \in userRows : u.id = b.user_id

C7_NoOrphanBooking ==
    [][/\ Referential(bookings', cars', users')
       /\ (/\ last'.op = "createBooking"
           /\ inflight' # inflight
           /\ Matching(cars, last'.arg) = {})
          => /\ last'.status = 500
             /\ bookings' = bookings]_vars

C7_Witness ==
    /\ last.op = "createBooking"
    /\ last.status = 500
    /\ PgDate(last.date)
    /\ PgInteger(last.arg) # {}
    /\ Matching(cars, last.arg) = {}

(***************************************************************************)
(* C8, as claimed. POST /bookings with a valid token whose car_id or       *)
(* travel_date is missing or not well-formed is answered 400.              *)
(***************************************************************************)
C8_MalformedIs400 ==
    (/\ last.op = "createBooking"
     /\ Authenticated
     /\ \/ Not(last.arg)
        \/ PgInteger(last.arg) = {}
        \/ Not(last.date)
        \/ ~PgDate(last.date))
    => last.status = 400

(***************************************************************************)
(* C9. A step that answers 400, 401 or 403, or that answers GET /cars,     *)
(* GET /cars/:id, GET /bookings or GET /bookings/:id, leaves users, cars   *)
(* and bookings as they were.                                              *)
(***************************************************************************)
C9_RejectedPersistsNothing ==
    [][(last'.status \in {400, 401, 403} \/ last'.op \in Reads)
       => /\ users' = users
          /\ cars' = cars
          /\ bookings' = bookings]_vars

C9_Witness ==
    /\ last.op = "register"
    /\ last.status = 400
    /\ users # {}
    /\ cars # {}
    /\ bookings # {}

====
